---- MODULE Spec2Model ----
(***************************************************************************)
(* HistoricalFeatureStoreWriter                                            *)
(* (src/butterfree/load/writers/historical_feature_store_writer.py).       *)
(*                                                                         *)
(* Three specifications over one set of variables:                         *)
(*   Spec       one writer, load and validate called one after the other;  *)
(*   CountSpec  _assert_validation_count applied to drawn inputs;          *)
(*   ConcSpec   several callers inside load of one shared writer, one      *)
(*              statement of lines 137-142 at a time.                      *)
(* Strings are sequences of one-character strings so that lower(),         *)
(* os.path.join and the f-strings are computed, not assumed.               *)
(***************************************************************************)
EXTENDS Integers, Sequences, FiniteSets, TLC

VARIABLES
    db_config,              \* self.db_config
    check_schema,           \* self.check_schema
    database,               \* self.database
    num_partitions,         \* self.num_partitions
    validation_threshold,   \* self.validation_threshold
    debug_mode,             \* self.debug_mode (set by Writer.__init__)
    pre_hooks,              \* hooks registered through self.add_pre_hook
    conf_mode,              \* spark.sql.sources.partitionOverwriteMode of the session
    next_id,                \* identity of the next object constructed
    ctor,                   \* the arguments __init__ was called with
    last,                   \* the last call made on the writer and its outcome
    plan_paths,             \* per feature set, options["path"] of the last plan returned
    count_in,               \* CountSpec: the inputs of _assert_validation_count
    pc,                     \* ConcSpec: each caller's position in load
    caller_fs,              \* ConcSpec: each caller's feature_set argument
    caller_hook,            \* ConcSpec: the hook each caller passed to add_pre_hook
    constructed             \* ConcSpec: the hooks constructed at line 138

vars == << db_config, check_schema, database, num_partitions,
           validation_threshold, debug_mode, pre_hooks, conf_mode, next_id,
           ctor, last, plan_paths, count_in, pc, caller_fs, caller_hook,
           constructed >>

writer == << db_config, check_schema, database, num_partitions,
             validation_threshold, debug_mode, pre_hooks >>

-----------------------------------------------------------------------------
(* Bounds of the model *)

\* load calls made on the writer of Spec
MaxCalls == 2

\* row counts of the dataframes and tables of Spec
MaxRows == 1

\* row counts drawn in CountSpec
MaxCount == 29

\* concurrent callers of ConcSpec
NumCallers == 2

-----------------------------------------------------------------------------
(* Strings *)

None == "None"

UpperCase == << "A","B","C","D","E","F","G","H","I","J","K","L","M",
                "N","O","P","Q","R","S","T","U","V","W","X","Y","Z" >>

LowerCase == << "a","b","c","d","e","f","g","h","i","j","k","l","m",
                "n","o","p","q","r","s","t","u","v","w","x","y","z" >>

\* str.lower() of one character
LowerChar(c) ==
    IF \E i \in 1..Len(UpperCase) : UpperCase[i] = c
    THEN LowerCase[CHOOSE i \in 1..Len(UpperCase) : UpperCase[i] = c]
    ELSE c

\* str.lower()
lower(s) == [i \in 1..Len(s) |-> LowerChar(s[i])]

DYNAMIC == << "d","y","n","a","m","i","c" >>

HISTORICAL == << "h","i","s","t","o","r","i","c","a","l" >>

DEBUG_PREFIX ==
    << "h","i","s","t","o","r","i","c","a","l","_","f","e","a","t","u","r","e",
       "_","s","t","o","r","e","_","_" >>

SEP == "/"

\* posixpath.join of two components
Join2(a, b) ==
    IF Len(b) > 0 /\ b[1] = SEP THEN b
    ELSE IF Len(a) = 0 \/ a[Len(a)] = SEP THEN a \o b
    ELSE a \o << SEP >> \o b

\* os.path.join(a, b, c)
join(a, b, c) == Join2(Join2(a, b), c)

-----------------------------------------------------------------------------
(* Python float: IEEE-754 binary64, round to nearest even.  A natural      *)
(* number is its sequence of bits, least significant first; the result of  *)
(* an operation is a record [mant, exp] of value mant * 2^exp.             *)

\* bits of the significand of a binary64
MantBits == 53

RECURSIVE NatToBits(_)
NatToBits(n) == IF n = 0 THEN << >> ELSE << n % 2 >> \o NatToBits(n \div 2)

Bit(a, i) == IF i <= Len(a) THEN a[i] ELSE 0

RECURSIVE Trim(_)
Trim(a) ==
    IF Len(a) > 0 /\ a[Len(a)] = 0 THEN Trim(SubSeq(a, 1, Len(a) - 1)) ELSE a

RECURSIVE AddFrom(_, _, _, _)
AddFrom(a, b, i, carry) ==
    IF i > Len(a) /\ i > Len(b)
    THEN IF carry = 1 THEN << 1 >> ELSE << >>
    ELSE LET s == Bit(a, i) + Bit(b, i) + carry
         IN  << s % 2 >> \o AddFrom(a, b, i + 1, s \div 2)

BitsAdd(a, b) == AddFrom(a, b, 1, 0)

RECURSIVE SubFrom(_, _, _, _)
SubFrom(a, b, i, borrow) ==
    IF i > Len(a)
    THEN << >>
    ELSE LET s == Bit(a, i) - Bit(b, i) - borrow
         IN  << (s + 2) % 2 >> \o SubFrom(a, b, i + 1, IF s < 0 THEN 1 ELSE 0)

\* a - b for a >= b
BitsSub(a, b) == Trim(SubFrom(a, b, 1, 0))

ShiftLeft(a, k) == IF Len(a) = 0 THEN a ELSE [i \in 1..k |-> 0] \o a

RECURSIVE BitsMulNat(_, _)
BitsMulNat(a, n) ==
    IF n = 0 THEN << >>
    ELSE LET h == ShiftLeft(BitsMulNat(a, n \div 2), 1)
         IN  IF n % 2 = 1 THEN BitsAdd(a, h) ELSE h

RECURSIVE LeqFrom(_, _, _)
LeqFrom(x, y, i) ==
    IF i = 0 THEN TRUE
    ELSE IF x[i] # y[i] THEN x[i] < y[i]
    ELSE LeqFrom(x, y, i - 1)

BitsLeq(a, b) ==
    LET x == Trim(a)
        y == Trim(b)
    IN  IF Len(x) # Len(y) THEN Len(x) < Len(y) ELSE LeqFrom(x, y, Len(x))

\* the binary64 nearest to n * 2^e, ties to even
RoundNearestEven(n, e) ==
    LET a == Trim(n)
        L == Len(a)
    IN  IF L <= MantBits
        THEN [mant |-> a, exp |-> e]
        ELSE LET s      == L - MantBits
                 q      == SubSeq(a, s + 1, L)
                 sticky == \E i \in 1..(s - 1) : a[i] = 1
                 up     == a[s] = 1 /\ (sticky \/ q[1] = 1)
             IN  [mant |-> IF up THEN BitsAdd(q, << 1 >>) ELSE q, exp |-> e + s]

RECURSIVE HexToBits(_)
HexToBits(h) ==
    IF Len(h) = 0 THEN << >>
    ELSE HexToBits(Tail(h))
         \o << h[1] % 2, (h[1] \div 2) % 2, (h[1] \div 4) % 2, h[1] \div 8 >>

\* the float that float.hex() prints as [-]0x<lead>.<frac>p<p>
Float(neg, lead, frac, p) == [neg |-> neg, lead |-> lead, frac |-> frac, p |-> p]

\* its value is Mant(t) * 2^Exp(t), negated if t.neg
Mant(t) == Trim(HexToBits(t.frac) \o << t.lead >>)

Exp(t) == t.p - Len(t.frac) * 4

\* 0.0 = 0x0.0p+0
FloatZero == Float(FALSE, 0, << 0 >>, 0)

\* 1 - t and 1 + t for a float t with |t| < 1
OneMinus(t) ==
    LET one == ShiftLeft(<< 1 >>, 0 - Exp(t))
    IN  IF t.neg THEN RoundNearestEven(BitsAdd(one, Mant(t)), Exp(t))
        ELSE RoundNearestEven(BitsSub(one, Mant(t)), Exp(t))

OnePlus(t) ==
    LET one == ShiftLeft(<< 1 >>, 0 - Exp(t))
    IN  IF t.neg THEN RoundNearestEven(BitsSub(one, Mant(t)), Exp(t))
        ELSE RoundNearestEven(BitsAdd(one, Mant(t)), Exp(t))

\* float * int
FloatMulNat(x, n) == RoundNearestEven(BitsMulNat(x.mant, n), x.exp)

\* float <= int and int <= float, compared exactly as Python does
FloatLeqNat(x, n) ==
    IF x.exp < 0 THEN BitsLeq(x.mant, ShiftLeft(NatToBits(n), 0 - x.exp))
    ELSE BitsLeq(ShiftLeft(x.mant, x.exp), NatToBits(n))

NatLeqFloat(n, x) ==
    IF x.exp < 0 THEN BitsLeq(ShiftLeft(NatToBits(n), 0 - x.exp), x.mant)
    ELSE BitsLeq(NatToBits(n), ShiftLeft(x.mant, x.exp))

\* DEFAULT_VALIDATION_THRESHOLD = 0.01 = 0x1.47ae147ae147bp-7
DEFAULT_VALIDATION_THRESHOLD ==
    Float(FALSE, 1, << 4, 7, 10, 14, 1, 4, 7, 10, 14, 1, 4, 7, 11 >>, 0 - 7)

\* 0.16 = 0x1.47ae147ae147bp-3
Threshold_0_16 ==
    Float(FALSE, 1, << 4, 7, 10, 14, 1, 4, 7, 10, 14, 1, 4, 7, 11 >>, 0 - 3)

\* 0.5 = 0x1.0000000000000p-1
Threshold_0_5 == Float(FALSE, 1, << 0, 0, 0, 0, 0, 0, 0, 0, 0, 0, 0, 0, 0 >>, 0 - 1)

\* -0.01 = -0x1.47ae147ae147bp-7
Threshold_neg_0_01 ==
    Float(TRUE, 1, << 4, 7, 10, 14, 1, 4, 7, 10, 14, 1, 4, 7, 11 >>, 0 - 7)

\* lines 174-176: lower_bound <= dataframe_count <= upper_bound
Validation(threshold, written_count, dataframe_count) ==
    LET lower_bound == FloatMulNat(OneMinus(threshold), written_count)
        upper_bound == FloatMulNat(OnePlus(threshold), written_count)
    IN  /\ FloatLeqNat(lower_bound, dataframe_count)
        /\ NatLeqFloat(dataframe_count, upper_bound)


-----------------------------------------------------------------------------
(* Collaborators of the writer *)

\* the validation_threshold arguments of the model
Thresholds ==
    { FloatZero, DEFAULT_VALIDATION_THRESHOLD, Threshold_0_16, Threshold_0_5,
      Threshold_neg_0_01 }

\* FeatureSet: name and entity
FeatureSets ==
    { [name |-> << "f", "1" >>, entity |-> << "u" >>],
      [name |-> << "f", "2" >>, entity |-> << "u" >>],
      [name |-> << "f", "1" >>, entity |-> << "/", "e" >>] }

\* values of spark.sql.sources.partitionOverwriteMode
ConfModes ==
    { << "d","y","n","a","m","i","c" >>,
      << "D","y","n","a","m","i","c" >>,
      << "S","T","A","T","I","C" >> }

\* the check_schema argument: None, or a Hook built by the caller
NoHook == [kind |-> "None", table |-> << >>, database |-> << >>, id |-> 0]

SuppliedHook == [kind |-> "Hook", table |-> << >>, database |-> << >>, id |-> 0]

IsNone(hook) == hook.kind = "None"

\* SparkTableSchemaCompatibilityHook(spark_client, table, database), a new object
NewHook(table, db, id) ==
    [kind |-> "SparkTableSchemaCompatibilityHook", table |-> table,
     database |-> db, id |-> id]

\* the db_config argument: None, or a configuration built by the caller
NoConfig == [bucket |-> << >>, format_ |-> "None", mode |-> "None"]

CustomConfig == [bucket |-> << "m", "y" >>, format_ |-> "orc", mode |-> "overwrite"]

\* S3Config()
S3ConfigDefault == [bucket |-> << "b" >>, format_ |-> "parquet", mode |-> "overwrite"]

\* db_config.get_options(key)
get_options(cfg, key) ==
    [path    |-> << "s", "3", "a", ":", "/", "/" >> \o cfg.bucket \o << SEP >> \o key,
     format_ |-> cfg.format_,
     mode    |-> cfg.mode]

\* environment.get_variable("FEATURE_STORE_HISTORICAL_DATABASE")
EnvDatabase == << "e", "n", "v" >>

DEFAULT_NUM_PARTITIONS == "DEFAULT_NUM_PARTITIONS"

\* a dataframe of n rows as the caller passes it
Dataframe(n) ==
    [count |-> n, columns |-> << "id", "timestamp" >>,
     partition_by |-> << >>, num_partitions |-> "None"]

\* Writer.add_pre_hook(hook), HookableComponent's registry of pre-hooks
add_pre_hook(hooks, hook) == Append(hooks, hook)

-----------------------------------------------------------------------------
(* HistoricalFeatureStoreWriter *)

\* the partition columns listed day first
PARTITION_BY_Reversed == << "day", "month", "year" >>

PARTITION_BY == << "year", "month", "day" >>

\* _create_partitions: three withColumn calls, then repartition_df
_create_partitions(df, n) ==
    [count |-> df.count, columns |-> df.columns \o PARTITION_BY,
     partition_by |-> PARTITION_BY, num_partitions |-> n]

\* the guard comparing the setting as read, without lower()
OverwriteModeError_NoLower(debug, mode) == ~debug /\ mode # DYNAMIC

\* lines 146-151: the overwrite-mode guard raises
OverwriteModeError(debug, mode) == ~debug /\ lower(mode) # DYNAMIC

\* the key joined with name and entity in the other order
S3Key_Swapped(fs) == join(HISTORICAL, fs.name, fs.entity)

\* line 161
S3Key(fs) == join(HISTORICAL, fs.entity, fs.name)

\* the table name taken as in normal mode whatever debug_mode is
TableName_NoDebug(debug, db, fs) == db \o << "." >> \o fs.name

\* lines 199-203
TableName(debug, db, fs) ==
    IF ~debug THEN db \o << "." >> \o fs.name ELSE DEBUG_PREFIX \o fs.name

\* lines 205-211: how written_count is read, and the get_options calls made
ReadBack(debug, cfg, table_name) ==
    IF ~debug
    THEN [kind |-> "read", format |-> cfg.format_, name |-> << >>,
          options |-> get_options(cfg, table_name), get_options |-> << table_name >>]
    ELSE [kind |-> "read_table", format |-> "None", name |-> table_name,
          options |-> NoConfig, get_options |-> << >>]

\* lines 177-182: the assert passes, or raises with its message's values
AssertOutcome(validation, table_name, written_count, dataframe_count) ==
    IF validation
    THEN [raised |-> "None", table_name |-> << >>, written_count |-> 0,
          dataframe_count |-> 0]
    ELSE [raised |-> "AssertionError", table_name |-> table_name,
          written_count |-> written_count, dataframe_count |-> dataframe_count]

\* _assert_validation_count
_assert_validation_count(threshold, table_name, written_count, dataframe_count) ==
    AssertOutcome(Validation(threshold, written_count, dataframe_count),
                  table_name, written_count, dataframe_count)

\* lines 174-176 over the row counts of Spec, computed once
ValidationOf ==
    [t \in Thresholds, w \in 0..MaxRows, d \in 0..MaxRows |-> Validation(t, w, d)]

-----------------------------------------------------------------------------
(* Spec: one writer, its calls made one after the other *)

Callers == 1..NumCallers

\* the values the variables of the other specifications keep
NoCounts == [written_count |-> 0, dataframe_count |-> 0]

NoCallers ==
    /\ pc = [c \in Callers |-> "idle"]
    /\ caller_fs = [c \in Callers |-> CHOOSE fs \in FeatureSets : TRUE]
    /\ caller_hook = [c \in Callers |-> NoHook]
    /\ constructed = { }

\* the validation_threshold arguments of Spec
SpecThresholds == { DEFAULT_VALIDATION_THRESHOLD, Threshold_neg_0_01 }

\* the arguments of __init__
CtorArgs ==
    [db_config            : { NoConfig, CustomConfig },
     database             : { << >>, << "d", "b" >> },
     num_partitions       : { "None", "8" },
     validation_threshold : SpecThresholds,
     debug_mode           : BOOLEAN,
     check_schema         : { NoHook, SuppliedHook }]

\* __init__
__init__(args) ==
    /\ ctor = args
    /\ debug_mode = args.debug_mode
    /\ db_config = IF args.db_config = NoConfig THEN S3ConfigDefault ELSE args.db_config
    /\ check_schema = args.check_schema
    /\ database = IF args.database = << >> THEN EnvDatabase ELSE args.database
    /\ num_partitions =
           IF args.num_partitions = "None" THEN DEFAULT_NUM_PARTITIONS
           ELSE args.num_partitions
    /\ validation_threshold = args.validation_threshold
    /\ pre_hooks = << >>
    /\ next_id = 1
    /\ last = [op |-> "__init__"]
    /\ plan_paths = [fs \in FeatureSets |-> << >>]

Init ==
    /\ \E args \in CtorArgs : __init__(args)
    /\ conf_mode \in ConfModes
    /\ count_in = NoCounts
    /\ NoCallers

\* load(feature_set, dataframe, spark_client)
load(fs, df) ==
    /\ Len(pre_hooks) < MaxCalls
    /\ LET hook     == IF IsNone(check_schema)
                       THEN NewHook(fs.name, database, next_id)
                       ELSE check_schema
           prepared == _create_partitions(df, num_partitions)
           s3_key   == S3Key(fs)
           options  == [path |-> get_options(db_config, s3_key).path]
       IN  /\ check_schema' = hook
           /\ next_id' = IF IsNone(check_schema) THEN next_id + 1 ELSE next_id
           /\ pre_hooks' = add_pre_hook(pre_hooks, hook)
           /\ IF OverwriteModeError(debug_mode, conf_mode)
              THEN /\ last' = [op |-> "load", feature_set |-> fs,
                               registered |-> hook, conf_read |-> TRUE,
                               raised |-> "RuntimeError",
                               message_mode |-> lower(conf_mode)]
                   /\ UNCHANGED plan_paths
              ELSE /\ last' = [op |-> "load", feature_set |-> fs,
                               registered |-> hook, conf_read |-> ~debug_mode,
                               raised |-> "None", s3_key |-> s3_key,
                               plan |-> [dataframe    |-> prepared,
                                         db_config    |-> db_config,
                                         options      |-> options,
                                         database     |-> database,
                                         table_name   |-> fs.name,
                                         partition_by |-> PARTITION_BY]]
                   /\ plan_paths' = [plan_paths EXCEPT ![fs] = options.path]
    /\ UNCHANGED << db_config, database, num_partitions, validation_threshold,
                    debug_mode, conf_mode, ctor, count_in, pc, caller_fs,
                    caller_hook, constructed >>

\* validate(feature_set, dataframe, spark_client); rows is what the read-back counts
validate(fs, df, rows) ==
    /\ LET table_name      == TableName(debug_mode, database, fs)
           read            == ReadBack(debug_mode, db_config, table_name)
           written_count   == rows
           dataframe_count == df.count
       IN  last' = [op |-> "validate", feature_set |-> fs, read |-> read,
                    table_name |-> table_name,
                    written_count |-> written_count,
                    dataframe_count |-> dataframe_count,
                    outcome |-> AssertOutcome(
                        ValidationOf[validation_threshold, written_count,
                                     dataframe_count],
                        table_name, written_count, dataframe_count)]
    /\ UNCHANGED << writer, conf_mode, next_id, ctor, plan_paths, count_in, pc,
                    caller_fs, caller_hook, constructed >>

Next ==
    \/ \E fs \in FeatureSets, n \in 0..MaxRows : load(fs, Dataframe(n))
    \/ \E fs \in FeatureSets, n \in 0..MaxRows, rows \in 0..MaxRows :
           validate(fs, Dataframe(n), rows)

Spec == Init /\ [][Next]_vars

-----------------------------------------------------------------------------
(* CountSpec: _assert_validation_count on drawn thresholds and row counts *)

DefaultArgs(threshold) ==
    [db_config |-> NoConfig, database |-> << >>, num_partitions |-> "None",
     validation_threshold |-> threshold, debug_mode |-> FALSE,
     check_schema |-> NoHook]

CountFeatureSet == [name |-> << "f", "1" >>, entity |-> << "u" >>]

CountInit ==
    /\ \E t \in Thresholds : __init__(DefaultArgs(t))
    /\ conf_mode = DYNAMIC
    /\ count_in \in [written_count : 0..MaxCount, dataframe_count : 0..MaxCount]
    /\ NoCallers

\* self._assert_validation_count(table_name, written_count, dataframe_count)
AssertCount ==
    /\ last.op = "__init__"
    /\ last' = [op |-> "_assert_validation_count",
                outcome |-> _assert_validation_count(
                    validation_threshold,
                    TableName(debug_mode, database, CountFeatureSet),
                    count_in.written_count, count_in.dataframe_count)]
    /\ UNCHANGED << writer, conf_mode, next_id, ctor, plan_paths, count_in, pc,
                    caller_fs, caller_hook, constructed >>

CountNext == AssertCount

CountSpec == CountInit /\ [][CountNext]_vars

-----------------------------------------------------------------------------
(* ConcSpec: callers of load on one shared writer built without a hook,    *)
(* interleaved between the statements of lines 137-142                     *)

ConcInit ==
    /\ __init__(DefaultArgs(DEFAULT_VALIDATION_THRESHOLD))
    /\ conf_mode = DYNAMIC
    /\ count_in = NoCounts
    /\ pc = [c \in Callers |-> "137"]
    /\ caller_fs \in [Callers -> FeatureSets]
    /\ caller_hook = [c \in Callers |-> NoHook]
    /\ constructed = { }

\* line 137: if not self.check_schema
TestCheckSchema(c) ==
    /\ pc[c] = "137"
    /\ pc' = [pc EXCEPT ![c] = IF IsNone(check_schema) THEN "138" ELSE "142"]
    /\ UNCHANGED << writer, conf_mode, next_id, ctor, last, plan_paths, count_in,
                    caller_fs, caller_hook, constructed >>

\* lines 138-140: self.check_schema = SparkTableSchemaCompatibilityHook(...)
StoreCheckSchema(c) ==
    /\ pc[c] = "138"
    /\ LET hook == NewHook(caller_fs[c].name, database, next_id)
       IN  /\ check_schema' = hook
           /\ constructed' = constructed \cup { hook }
    /\ next_id' = next_id + 1
    /\ pc' = [pc EXCEPT ![c] = "142"]
    /\ UNCHANGED << db_config, database, num_partitions, validation_threshold,
                    debug_mode, pre_hooks, conf_mode, ctor, last, plan_paths,
                    count_in, caller_fs, caller_hook >>

\* line 142: self.add_pre_hook(self.check_schema); lines 144-171 touch no field
RegisterCheckSchema(c) ==
    /\ pc[c] = "142"
    /\ pre_hooks' = add_pre_hook(pre_hooks, check_schema)
    /\ caller_hook' = [caller_hook EXCEPT ![c] = check_schema]
    /\ pc' = [pc EXCEPT ![c] = "done"]
    /\ UNCHANGED << db_config, check_schema, database, num_partitions,
                    validation_threshold, debug_mode, conf_mode, next_id, ctor,
                    last, plan_paths, count_in, caller_fs, constructed >>

ConcNext ==
    \E c \in Callers :
        \/ TestCheckSchema(c)
        \/ StoreCheckSchema(c)
        \/ RegisterCheckSchema(c)

ConcSpec == ConcInit /\ [][ConcNext]_vars

-----------------------------------------------------------------------------
(* Properties *)

Registered == { pre_hooks[i] : i \in DOMAIN pre_hooks }

Returned == last.op = "load" /\ last.raised = "None"

\* C1: load raises the configuration error, and returns no plan, exactly when
\* debug mode is off and the lower-cased overwrite-mode setting is not
\* "dynamic"; in debug mode the setting is not read and a plan is returned.
C1_OverwriteModeGuard ==
    last.op = "load" =>
        /\ last.raised = "RuntimeError" <=>
               (~debug_mode /\ lower(conf_mode) # << "d","y","n","a","m","i","c" >>)
        /\ last.raised = "RuntimeError" <=> "plan" \notin DOMAIN last
        /\ last.raised \in { "RuntimeError", "None" }
        /\ last.conf_read <=> ~debug_mode

C1_Witness ==
    /\ last.op = "load"
    /\ last.raised = "RuntimeError"
    /\ conf_mode = << "S","T","A","T","I","C" >>

\* exact arithmetic: (1 - t) * w <= d <= (1 + t) * w for the float t
ExactlyWithin(t, w, d) ==
    LET one   == ShiftLeft(<< 1 >>, 0 - Exp(t))
        low   == IF t.neg THEN BitsAdd(one, Mant(t)) ELSE BitsSub(one, Mant(t))
        high  == IF t.neg THEN BitsSub(one, Mant(t)) ELSE BitsAdd(one, Mant(t))
        count == ShiftLeft(NatToBits(d), 0 - Exp(t))
    IN  /\ BitsLeq(BitsMulNat(low, w), count)
        /\ BitsLeq(count, BitsMulNat(high, w))

\* C2: the count validation passes exactly when
\* (1 - t) * w <= d <= (1 + t) * w, and otherwise raises an AssertionError
\* that carries the table name and both counts.
C2_CountWithinTolerance ==
    last.op = "_assert_validation_count" =>
        /\ last.outcome.raised = "None" <=>
               ExactlyWithin(validation_threshold, count_in.written_count,
                             count_in.dataframe_count)
        /\ last.outcome.raised # "None" =>
               /\ last.outcome.raised = "AssertionError"
               /\ last.outcome.table_name = EnvDatabase \o << ".", "f", "1" >>
               /\ last.outcome.written_count = count_in.written_count
               /\ last.outcome.dataframe_count = count_in.dataframe_count

\* C3: in normal mode validate reads the physical path that load put in the
\* plan's options for the same feature set.
C3_ValidateReadsWrittenPath ==
    ( /\ last.op = "validate"
      /\ ~debug_mode
      /\ plan_paths[last.feature_set] # << >> )
        => last.read.options.path = plan_paths[last.feature_set]

\* C4: apart from check_schema, the writer is as __init__ left it, the set
\* of registered pre-hooks included.
C4_OnlyCheckSchemaChanges ==
    /\ db_config =
           IF ctor.db_config = NoConfig THEN S3ConfigDefault ELSE ctor.db_config
    /\ database = IF ctor.database = << >> THEN EnvDatabase ELSE ctor.database
    /\ num_partitions =
           IF ctor.num_partitions = "None" THEN DEFAULT_NUM_PARTITIONS
           ELSE ctor.num_partitions
    /\ validation_threshold = ctor.validation_threshold
    /\ debug_mode = ctor.debug_mode
    /\ Registered = { }

\* C5: validate in debug mode counts a direct read of the table
\* historical_feature_store__<name> and makes no get_options call; in normal
\* mode it reads with the configuration's format and the options of
\* <database>.<name>, and reads no table directly.
C5_ValidateReadRoute ==
    last.op = "validate" =>
        IF debug_mode
        THEN /\ last.read.kind = "read_table"
             /\ last.read.name =
                    << "h","i","s","t","o","r","i","c","a","l","_","f","e","a","t",
                       "u","r","e","_","s","t","o","r","e","_","_" >>
                    \o last.feature_set.name
             /\ last.read.get_options = << >>
        ELSE /\ last.read.kind = "read"
             /\ last.read.format = db_config.format_
             /\ last.read.get_options =
                    << database \o << "." >> \o last.feature_set.name >>
             /\ last.read.options =
                    get_options(db_config,
                               database \o << "." >> \o last.feature_set.name)

C5_Witness ==
    /\ last.op = "validate"
    /\ debug_mode
    /\ last.read.kind = "read_table"
    /\ last.feature_set.name = << "f", "2" >>

\* the path join of "historical", entity and name, for names that are relative
JoinedKey(fs) ==
    IF fs.entity[1] = "/"
    THEN fs.entity \o << "/" >> \o fs.name
    ELSE << "h","i","s","t","o","r","i","c","a","l", "/" >> \o fs.entity
         \o << "/" >> \o fs.name

\* C6: the key a successful load resolves through get_options is the path
\* join of "historical", entity and name, whatever the database, partition
\* count and debug mode, and the plan's options hold exactly the path
\* resolved for that key.
C6_StoragePath ==
    Returned =>
        /\ last.s3_key = JoinedKey(last.feature_set)
        /\ last.plan.options = [path |-> get_options(db_config, last.s3_key).path]

C6_Witness ==
    /\ Returned
    /\ database = << "d", "b" >>
    /\ num_partitions = "8"
    /\ debug_mode
    /\ last.s3_key = << "h","i","s","t","o","r","i","c","a","l","/","u","/","f","2" >>

\* C7: every plan load returns carries the partition columns year, month, day
\* in that order, the writer's database, and the feature set's name as table
\* name.
C7_PlanPartitionColumns ==
    Returned =>
        /\ last.plan.partition_by = << "year", "month", "day" >>
        /\ last.plan.database = database
        /\ last.plan.table_name = last.feature_set.name

C7_Witness ==
    /\ Returned
    /\ Len(pre_hooks) = MaxCalls
    /\ last.plan.table_name = << "f", "2" >>

\* C8: the threshold is the one given to __init__, and no writer reaches
\* validate with a threshold below 0.
C8_ThresholdNonNegative ==
    /\ validation_threshold = ctor.validation_threshold
    /\ last.op = "validate" => ~validation_threshold.neg

\* C9: the hook a load call registers is the one given to __init__ if there
\* was one, and otherwise a schema check of the call's own feature set name
\* and the writer's database.
C9_RegisteredHookOfFeatureSet ==
    last.op = "load" =>
        IF ~IsNone(ctor.check_schema)
        THEN last.registered = ctor.check_schema
        ELSE /\ last.registered.kind = "SparkTableSchemaCompatibilityHook"
             /\ last.registered.table = last.feature_set.name
             /\ last.registered.database = database

\* C10: under every interleaving at most one hook is constructed, and every
\* caller that has registered a hook registered the one the writer holds.
C10_FirstCallWins ==
    /\ Cardinality(constructed) <= 1
    /\ \A c \in Callers : pc[c] = "done" => caller_hook[c] = check_schema

====
